---------------------------- MODULE Spec2Model ----------------------------
(***************************************************************************)
(* A model of tachometer's benchmark planning code:                       *)
(*   src/src/versions.ts         parsePackageVersions, makeServerPlans,    *)
(*                               hashStrings, prepareVersionDirectory      *)
(*   src/server/src/specs.ts     specsFromOpts                             *)
(*                                                                         *)
(* Strings are sequences of tokens.  A token is one character ("a", "/",   *)
(* "=", " ") or one of a few fixed multi-character chunks ("default" and   *)
(* the reserved directory names), so that split, trim, the two regular     *)
(* expressions, path joins and string comparison are computed on the       *)
(* text and not assumed.                                                   *)
(***************************************************************************)
EXTENDS Integers, Sequences, FiniteSets, TLC

VARIABLES
    mode,       \* which component this behaviour exercises
    pc,         \* "input" before the call of a pure component, "done" after
    flags,      \* parsePackageVersions: the flags argument
    parsed,     \* parsePackageVersions: the returned Map or the thrown error
    opts,       \* specsFromOpts: the opts argument
    disk,       \* specsFromOpts: the layout under <repoRoot>/benchmarks
    expanded,   \* specsFromOpts: the returned specs or the thrown error
    inSpecs,    \* makeServerPlans: the specs argument
    fs,         \* makeServerPlans: file kinds and package.json files on disk
    planned,    \* makeServerPlans: the returned plans or the thrown error
    calls,      \* prepareVersionDirectory: each invocation's position and history
    dirs,       \* prepareVersionDirectory: the state of each installDir on disk
    log         \* prepareVersionDirectory: counters over the whole behaviour

vars == <<mode, pc, flags, parsed, opts, disk, expanded, inSpecs, fs, planned,
          calls, dirs, log>>

---------------------------------------------------------------------------
(* Strings *)

S(t) == <<t>>

RECURSIVE Concat(_)
Concat(ss) == IF ss = <<>> THEN <<>> ELSE Head(ss) \o Concat(Tail(ss))

Min(set) == CHOOSE m \in set : \A n \in set : m <= n
Max(set) == CHOOSE m \in set : \A n \in set : m >= n

Range(f) == {f[i] : i \in DOMAIN f}

\* String.prototype.split(sep) for a one-character separator: the fields
\* between the separators, empty fields kept; "" splits into [""].
RECURSIVE Split(_, _)
Split(s, sep) ==
    LET hits == {i \in 1..Len(s) : s[i] = sep}
    IN  IF hits = {} THEN <<s>>
        ELSE LET i == Min(hits)
             IN  <<SubSeq(s, 1, i - 1)>> \o Split(SubSeq(s, i + 1, Len(s)), sep)

\* String.prototype.trim(): leading and trailing white space removed.
RECURSIVE Trim(_)
Trim(s) ==
    IF s = <<>> THEN s
    ELSE IF Head(s) = " " THEN Trim(Tail(s))
    ELSE IF s[Len(s)] = " " THEN Trim(SubSeq(s, 1, Len(s) - 1))
    ELSE s


\* A JavaScript Map, whose iteration order is insertion order: a sequence of
\* entries with distinct keys.
MapHas(m, k) == \E i \in 1..Len(m) : m[i].key = k
MapGet(m, k) == m[CHOOSE i \in 1..Len(m) : m[i].key = k].value
MapSet(m, k, v) ==
    IF MapHas(m, k)
    THEN [i \in 1..Len(m) |-> IF m[i].key = k THEN [key |-> k, value |-> v] ELSE m[i]]
    ELSE Append(m, [key |-> k, value |-> v])
MapKeys(m) == [i \in 1..Len(m) |-> m[i].key]

\* A JavaScript object used as a dictionary: a function on its keys.
EmptyObject == [k \in {} |-> <<>>]
ObjectSet(o, k, v) == [x \in DOMAIN o \cup {k} |-> IF x = k THEN v ELSE o[x]]
\* {...a, ...b}
ObjectSpread(a, b) ==
    [x \in DOMAIN a \cup DOMAIN b |-> IF x \in DOMAIN b THEN b[x] ELSE a[x]]

Throw(e) == [ok |-> FALSE, error |-> e]
Return(v) == [ok |-> TRUE, value |-> v]

---------------------------------------------------------------------------
(* versions.ts: parsePackageVersions *)

DefaultLabel == <<"default">>

\* The positions at which "=" can end the lazy group (.+?) that starts at p
\* and be followed by a non-empty (.+).
LabelEnds(s, p) == {e \in (p + 1)..(Len(s) - 1) : s[e] = "="}

\* /(.+?)\/(?:(default)|(?:(.+?)=(.+)))/ tried from position i with k
\* characters in the first group.  The expression is not anchored.
FlagRegexAt(s, i, k) ==
    LET j == i + k
    IN  /\ j <= Len(s)
        /\ s[j] = "/"
        /\ \/ (j + 1 <= Len(s) /\ s[j + 1] = "default")
           \/ LabelEnds(s, j + 1) # {}

\* flag.match(...): leftmost start, lazy first group, the alternative
\* (default) before the alternative <label>=<versions>, lazy label, greedy
\* versions.
FlagMatch(s) ==
    LET starts == {i \in 1..Len(s) : \E k \in 1..Len(s) : FlagRegexAt(s, i, k)}
    IN  IF starts = {} THEN [matched |-> FALSE]
        ELSE LET i == Min(starts)
                 k == Min({n \in 1..Len(s) : FlagRegexAt(s, i, n)})
                 j == i + k
                 isDefault == j + 1 <= Len(s) /\ s[j + 1] = "default"
                 e == Min(LabelEnds(s, j + 1))
             IN  [matched |-> TRUE,
                  implementation |-> SubSeq(s, i, j - 1),
                  isDefault |-> isDefault,
                  label |-> IF isDefault THEN <<>> ELSE SubSeq(s, j + 1, e - 1),
                  packageVersions |->
                      IF isDefault THEN <<>> ELSE SubSeq(s, e + 1, Len(s))]

\* pv.match(/(.+)@(.+)/): the greedy first group runs to the last "@" that
\* leaves a character on each side.
PvMatch(pv) ==
    LET ats == {q \in 2..(Len(pv) - 1) : pv[q] = "@"}
    IN  IF ats = {} THEN [matched |-> FALSE]
        ELSE LET q == Max(ats)
             IN  [matched |-> TRUE,
                  pkg |-> SubSeq(pv, 1, q - 1),
                  version |-> SubSeq(pv, q + 1, Len(pv))]

\* Lines 46-56: the loop over packageVersions.split(',').
RECURSIVE OverridesLoop(_, _)
OverridesLoop(pvs, dependencyOverrides) ==
    IF pvs = <<>> THEN Return(dependencyOverrides)
    ELSE LET pvMatch == PvMatch(Head(pvs))
         IN  IF ~pvMatch.matched THEN Throw("InvalidDependencyVersion")
             ELSE OverridesLoop(Tail(pvs),
                     ObjectSet(dependencyOverrides, pvMatch.pkg, pvMatch.version))

\* arr = versions.get(implementation) (created when absent); arr.push(v)
VersionsPush(versions, implementation, v) ==
    IF MapHas(versions, implementation)
    THEN MapSet(versions, implementation,
                Append(MapGet(versions, implementation), v))
    ELSE MapSet(versions, implementation, <<v>>)

\* Lines 29-68: the loop over flags, with the Map and the Set built so far.
RECURSIVE FlagsLoop(_, _, _)
FlagsLoop(fl, versions, uniqueImplLabels) ==
    IF fl = <<>> THEN Return(versions)
    ELSE
      LET flagMatch == FlagMatch(Head(fl))
      IN
      IF ~flagMatch.matched THEN Throw("InvalidFormat")
      ELSE IF flagMatch.isDefault
      THEN FlagsLoop(Tail(fl),
               VersionsPush(versions, flagMatch.implementation,
                   [label |-> DefaultLabel, dependencyOverrides |-> EmptyObject]),
               uniqueImplLabels)
      ELSE
        LET implLabel == flagMatch.implementation \o <<"/">> \o flagMatch.label
            overrides == OverridesLoop(Split(flagMatch.packageVersions, ","),
                                       EmptyObject)
        IN  IF implLabel \in uniqueImplLabels THEN Throw("DuplicateLabel")
            ELSE IF ~overrides.ok THEN overrides
            ELSE FlagsLoop(Tail(fl),
                     VersionsPush(versions, flagMatch.implementation,
                         [label |-> flagMatch.label,
                          dependencyOverrides |-> overrides.value]),
                     uniqueImplLabels \cup {implLabel})

parsePackageVersions(fl) == FlagsLoop(fl, <<>>, {})

---------------------------------------------------------------------------
(* String comparison *)

\* The characters of a token: a chunk stands for its characters.
Chars(t) == IF t = "default" THEN <<"d", "e", "f", "a", "u", "l", "t">> ELSE <<t>>

RECURSIVE Expand(_)
Expand(s) == IF s = <<>> THEN <<>> ELSE Chars(Head(s)) \o Expand(Tail(s))

\* UTF-16 code units of the letters and digits that names are made of.
CodeUnit(c) ==
    CASE c = "1" -> 49 [] c = "2" -> 50
      [] c = "B" -> 66 [] c = "Y" -> 89
      [] c = "a" -> 97 [] c = "b" -> 98 [] c = "d" -> 100 [] c = "e" -> 101
      [] c = "f" -> 102 [] c = "l" -> 108 [] c = "p" -> 112 [] c = "q" -> 113
      [] c = "t" -> 116 [] c = "u" -> 117 [] c = "v" -> 118 [] c = "w" -> 119
      [] c = "x" -> 120 [] c = "y" -> 121

IsUpper(c) == CodeUnit(c) >= 65 /\ CodeUnit(c) <= 90

\* Collation as String.prototype.localeCompare computes it (ICU, root and
\* English rules) on letters and digits: the primary weight of a letter is
\* that of its lower-case form, digits come before letters, and case is a
\* tertiary difference that counts only between strings whose primary
\* weights are all equal, lower case first.
PrimaryWeight(c) == IF IsUpper(c) THEN CodeUnit(c) + 32 ELSE CodeUnit(c)
TertiaryWeight(c) == IF IsUpper(c) THEN 1 ELSE 0

\* -1, 0 or 1: the lexicographic comparison of two sequences of numbers.
RECURSIVE CompareSeq(_, _)
CompareSeq(a, b) ==
    IF a = <<>> /\ b = <<>> THEN 0
    ELSE IF a = <<>> THEN -1
    ELSE IF b = <<>> THEN 1
    ELSE IF Head(a) < Head(b) THEN -1
    ELSE IF Head(a) > Head(b) THEN 1
    ELSE CompareSeq(Tail(a), Tail(b))

PrimaryWeights(s) ==
    LET cs == Expand(s) IN [i \in 1..Len(cs) |-> PrimaryWeight(cs[i])]
TertiaryWeights(s) ==
    LET cs == Expand(s) IN [i \in 1..Len(cs) |-> TertiaryWeight(cs[i])]
CodeUnits(s) ==
    LET cs == Expand(s) IN [i \in 1..Len(cs) |-> CodeUnit(cs[i])]

\* a.localeCompare(b)
localeCompare(a, b) ==
    LET primary == CompareSeq(PrimaryWeights(a), PrimaryWeights(b))
    IN  IF primary # 0 THEN primary
        ELSE CompareSeq(TertiaryWeights(a), TertiaryWeights(b))

\* Comparison by code units, the order of < on JavaScript strings.
OrdinalCompare(a, b) == CompareSeq(CodeUnits(a), CodeUnits(b))

---------------------------------------------------------------------------
(* specs.ts: specsFromOpts *)

Star == <<"*">>

ignoreFiles ==
    {<<"node_modules">>, <<"package.json">>, <<"package-lock.json">>,
     <<"common">>, <<"versions">>}

\* The predicates given to Array.prototype.filter (SelectSeq), lines 45 and 48.
NotIgnored(dir) == dir \notin ignoreFiles
Ignored(dir) == dir \in ignoreFiles

\* Array.prototype.map(v => v.trim())
TrimAll(seq) == [i \in 1..Len(seq) |-> Trim(seq[i])]

\* Lines 55-56: the Set of requested variant names.
VariantSet(variant) ==
    LET NonEmpty(v) == v # <<>>
    IN  Range(SelectSeq(TrimAll(Split(variant, ",")), NonEmpty))

\* The disk under <repoRoot>/benchmarks: d.exists says whether the directory
\* is there, d.tree lists its entries in readdir order, each with the entries
\* of that implementation directory, each with what reading its
\* benchmarks.json gives ([kind |-> "ENOENT"], [kind |-> "EIO"] or
\* [kind |-> "json", variants |-> ...]; a missing `variants` is the empty
\* list, a variant's missing name the empty string).
DefaultVersion == [label |-> DefaultLabel, dependencyOverrides |-> EmptyObject]

\* Lines 43-53.
ResolveImpls(o, d) ==
    IF o.implementation = Star
    THEN IF ~d.exists THEN Throw("ENOENT")
         ELSE Return(SelectSeq(MapKeys(d.tree), NotIgnored))
    ELSE LET impls == Split(o.implementation, ",")
             badNames == SelectSeq(impls, Ignored)
         IN  IF Len(badNames) > 0 THEN Throw("ReservedImplementationName")
             ELSE Return(impls)

ImplDirExists(d, implementation) == d.exists /\ MapHas(d.tree, implementation)

\* ResolveBenchmarks without the check of lines 66-69.
ResolveBenchmarksUnchecked(o, d, implementation) ==
    IF o.name = Star
    THEN IF ~ImplDirExists(d, implementation) THEN Throw("ENOENT")
         ELSE Return(SelectSeq(MapKeys(MapGet(d.tree, implementation)), NotIgnored))
    ELSE Return(Split(o.name, ","))

\* Lines 61-70.
ResolveBenchmarks(o, d, implementation) ==
    IF o.name = Star
    THEN IF ~ImplDirExists(d, implementation) THEN Throw("ENOENT")
         ELSE Return(SelectSeq(MapKeys(MapGet(d.tree, implementation)), NotIgnored))
    ELSE LET benchmarks == Split(o.name, ",")
             badNames == SelectSeq(benchmarks, Ignored)
         IN  IF Len(badNames) > 0 THEN Throw("ReservedBenchmarkName")
             ELSE Return(benchmarks)

\* fsExtra.pathExists(benchDir)
BenchDirExists(d, implementation, name) ==
    /\ ImplDirExists(d, implementation)
    /\ MapHas(MapGet(d.tree, implementation), name)

\* Lines 94-101 and 105-112: one spec per version.
RECURSIVE VersionsLoop(_, _, _, _, _)
VersionsLoop(implVersions, name, implementation, variant, config) ==
    IF implVersions = <<>> THEN <<>>
    ELSE <<[name |-> name,
            implementation |-> implementation,
            version |-> Head(implVersions),
            variant |-> variant,
            config |-> config]>>
         \o VersionsLoop(Tail(implVersions), name, implementation, variant, config)

\* VariantSelected without variants.has('*').
VariantSelectedByNameOnly(variant, variants) ==
    /\ variant.name # <<>>
    /\ variant.name \in variants

\* Line 92-93: variant.name && (variants.has('*') || variants.has(variant.name))
VariantSelected(variant, variants) ==
    /\ variant.name # <<>>
    /\ (Star \in variants \/ variant.name \in variants)

\* Lines 91-103.
RECURSIVE VariantsLoop(_, _, _, _, _)
VariantsLoop(declared, variants, implVersions, name, implementation) ==
    IF declared = <<>> THEN <<>>
    ELSE LET variant == Head(declared)
         IN  (IF VariantSelected(variant, variants)
              THEN VersionsLoop(implVersions, name, implementation, variant.name,
                       IF variant.config.defined THEN variant.config.value
                       ELSE EmptyObject)
              ELSE <<>>)
             \o VariantsLoop(Tail(declared), variants, implVersions, name,
                             implementation)

\* ImplVersions with the default version injected only when no flag at all
\* was given.
ImplVersionsDefaultWhenNoFlags(versions, implementation) ==
    IF versions = <<>> THEN <<DefaultVersion>>
    ELSE IF MapHas(versions, implementation) THEN MapGet(versions, implementation)
    ELSE <<>>

\* Lines 84-85: versions.get(implementation) || [{label: 'default', ...}]
ImplVersions(versions, implementation) ==
    IF MapHas(versions, implementation) THEN MapGet(versions, implementation)
    ELSE <<DefaultVersion>>

\* Lines 76-113: the specs one existing benchmark directory adds.
BenchmarkSpecs(o, d, versions, implementation, name) ==
    LET read == MapGet(MapGet(d.tree, implementation), name)
        implVersions == ImplVersions(versions, implementation)
    IN  IF read.kind = "EIO" THEN Throw("EIO")
        ELSE IF read.kind = "json" /\ Len(read.variants) > 0
        THEN Return(VariantsLoop(read.variants, VariantSet(o.variant),
                                 implVersions, name, implementation))
        ELSE IF o.variant = Star
        THEN Return(VersionsLoop(implVersions, name, implementation, <<>>,
                                 EmptyObject))
        ELSE Return(<<>>)

\* Lines 71-114: the loop over one implementation's benchmarks.
RECURSIVE BenchmarksLoop(_, _, _, _, _, _)
BenchmarksLoop(benchmarks, o, d, versions, implementation, specs) ==
    IF benchmarks = <<>> THEN Return(specs)
    ELSE IF ~BenchDirExists(d, implementation, Head(benchmarks))
    THEN BenchmarksLoop(Tail(benchmarks), o, d, versions, implementation, specs)
    ELSE LET added == BenchmarkSpecs(o, d, versions, implementation, Head(benchmarks))
         IN  IF ~added.ok THEN added
             ELSE BenchmarksLoop(Tail(benchmarks), o, d, versions, implementation,
                                 specs \o added.value)

\* Lines 58-115: the loop over the implementations.
RECURSIVE ImplsLoop(_, _, _, _, _)
ImplsLoop(impls, o, d, versions, specs) ==
    IF impls = <<>> THEN Return(specs)
    ELSE LET benchmarks == ResolveBenchmarks(o, d, Head(impls))
         IN  IF ~benchmarks.ok THEN benchmarks
             ELSE LET more == BenchmarksLoop(benchmarks.value, o, d, versions,
                                             Head(impls), specs)
                  IN  IF ~more.ok THEN more
                      ELSE ImplsLoop(Tail(impls), o, d, versions, more.value)

\* CompareSpecs without the comparison of the labels (lines 127-129).
CompareSpecsWithoutLabel(a, b) ==
    IF a.name # b.name THEN localeCompare(a.name, b.name)
    ELSE IF a.variant # b.variant THEN localeCompare(a.variant, b.variant)
    ELSE IF a.implementation # b.implementation
    THEN localeCompare(a.implementation, b.implementation)
    ELSE 0

\* Lines 117-131: the comparator given to specs.sort.
CompareSpecs(a, b) ==
    IF a.name # b.name THEN localeCompare(a.name, b.name)
    ELSE IF a.variant # b.variant THEN localeCompare(a.variant, b.variant)
    ELSE IF a.implementation # b.implementation
    THEN localeCompare(a.implementation, b.implementation)
    ELSE IF a.version.label # b.version.label
    THEN localeCompare(a.version.label, b.version.label)
    ELSE 0

\* Array.prototype.sort(compare), which is stable: an insertion sort that
\* puts each element behind those that do not compare greater.
InsertSorted(sorted, x) ==
    LET before == {i \in 0..Len(sorted) :
                      \A j \in (i + 1)..Len(sorted) : CompareSpecs(sorted[j], x) > 0}
        at == Min(before)
    IN  SubSeq(sorted, 1, at) \o <<x>> \o SubSeq(sorted, at + 1, Len(sorted))

RECURSIVE SortFrom(_, _)
SortFrom(rest, sorted) ==
    IF rest = <<>> THEN sorted
    ELSE SortFrom(Tail(rest), InsertSorted(sorted, Head(rest)))

SortSpecs(specs) == SortFrom(specs, <<>>)

\* Lines 37-134.
specsFromOpts(o, d) ==
    LET versions == parsePackageVersions(o.packageVersion)
    IN  IF ~versions.ok THEN versions
        ELSE LET impls == ResolveImpls(o, d)
             IN  IF ~impls.ok THEN impls
                 ELSE LET specs == ImplsLoop(impls.value, o, d, versions.value, <<>>)
                      IN  IF ~specs.ok THEN specs
                          ELSE Return(SortSpecs(specs.value))

---------------------------------------------------------------------------
(* Paths and JSON text, as node's path module and JSON object give them *)

\* path.join of an absolute directory and plain names.
RECURSIVE PathJoin(_, _)
PathJoin(dir, names) ==
    IF names = <<>> THEN dir
    ELSE PathJoin((IF dir = <<"/">> THEN dir ELSE dir \o <<"/">>) \o Head(names),
                  Tail(names))

\* path.dirname of an absolute path; also path.resolve(p, '..'), which
\* leaves the root where it is.
PathDirname(p) ==
    LET last == Max({i \in 1..Len(p) : p[i] = "/"})
    IN  IF last = 1 THEN <<"/">> ELSE SubSeq(p, 1, last - 1)

\* The names between the slashes of an absolute path.
Segments(p) == IF p = <<"/">> THEN <<>> ELSE Tail(Split(p, "/"))

RECURSIVE JoinWith(_, _)
JoinWith(ss, sep) ==
    IF ss = <<>> THEN <<>>
    ELSE IF Len(ss) = 1 THEN Head(ss)
    ELSE Head(ss) \o <<sep>> \o JoinWith(Tail(ss), sep)

\* path.relative(from, to) of two absolute paths.
PathRelative(from, to) ==
    LET f == Segments(from)
        g == Segments(to)
        same == Max({n \in 0..Min({Len(f), Len(g)}) :
                        SubSeq(f, 1, n) = SubSeq(g, 1, n)})
        ups == [i \in 1..(Len(f) - same) |-> <<"..">>]
    IN  JoinWith(ups \o SubSeq(g, same + 1, Len(g)), "/")

\* JSON.stringify of an array of strings.
RECURSIVE JSONEscape(_)
JSONEscape(s) ==
    IF s = <<>> THEN <<>>
    ELSE (IF Head(s) \in {"\"", "\\"} THEN <<"\\", Head(s)>> ELSE <<Head(s)>>)
         \o JSONEscape(Tail(s))

JSONStringify(strings) ==
    <<"[">>
    \o JoinWith([i \in 1..Len(strings) |->
                    <<"\"">> \o JSONEscape(strings[i]) \o <<"\"">>], ",")
    \o <<"]">>

\* JSON.parse of the text of an array of strings.
RECURSIVE JSONParseFrom(_, _, _, _, _)
JSONParseFrom(text, i, inString, cur, acc) ==
    IF i > Len(text) THEN acc
    ELSE IF inString
    THEN IF text[i] = "\\"
         THEN JSONParseFrom(text, i + 2, TRUE, Append(cur, text[i + 1]), acc)
         ELSE IF text[i] = "\""
         THEN JSONParseFrom(text, i + 1, FALSE, <<>>, Append(acc, cur))
         ELSE JSONParseFrom(text, i + 1, TRUE, Append(cur, text[i]), acc)
    ELSE JSONParseFrom(text, i + 1, text[i] = "\"", <<>>, acc)

JSONParse(text) == JSONParseFrom(text, 1, FALSE, <<>>, <<>>)

---------------------------------------------------------------------------
(* versions.ts: makeServerPlans *)

\* crypto's SHA-256 of the JSON text of the strings, in hex.  The digest is
\* modelled by the text it is computed from: equal texts give equal digests,
\* and distinct texts distinct ones.
hashStrings(strings) == <<"sha256">> \o JSONStringify(strings)

\* The disk the planner reads: f.kinds gives 'dir' or 'file' for the paths
\* that exist, f.manifests the `dependencies` of the package.json of each
\* directory that has one.
fileKind(f, path) ==
    IF path \in DOMAIN f.kinds
    THEN [defined |-> TRUE, value |-> f.kinds[path]]
    ELSE [defined |-> FALSE]

\* Lines 201-215.
RECURSIVE findPackageJsonPath(_, _)
findPackageJsonPath(f, cur) ==
    IF cur \in DOMAIN f.manifests
    THEN [defined |-> TRUE, value |-> PathJoin(cur, <<<<"package.json">>>>)]
    ELSE LET parentDir == PathDirname(cur)
         IN  IF parentDir = cur THEN [defined |-> FALSE]
             ELSE findPackageJsonPath(f, parentDir)

\* Lines 116-121.
InstallKey(packageDir, spec) ==
    JSONStringify(<<packageDir, spec.url.implementation, spec.url.version.label>>)

\* Lines 92-134: the loop over the specs, with the two Maps and the list of
\* default specs built so far.
RECURSIVE SpecsLoop(_, _, _, _, _, _)
SpecsLoop(f, benchmarkRoot, specs, keySpecs, keyDeps, defaultSpecs) ==
    IF specs = <<>>
    THEN Return([keySpecs |-> keySpecs, keyDeps |-> keyDeps,
                 defaultSpecs |-> defaultSpecs])
    ELSE
      LET spec == Head(specs)
      IN
      IF spec.url.kind = "remote"
      THEN SpecsLoop(f, benchmarkRoot, Tail(specs), keySpecs, keyDeps, defaultSpecs)
      ELSE IF spec.url.version.label = DefaultLabel
      THEN SpecsLoop(f, benchmarkRoot, Tail(specs), keySpecs, keyDeps,
                     Append(defaultSpecs, spec))
      ELSE
        LET diskPath == PathJoin(benchmarkRoot, <<spec.url.implementation, spec.name>>)
            kind == fileKind(f, diskPath)
            originalPackageJsonPath ==
                findPackageJsonPath(f,
                    IF kind.value = "file" THEN PathDirname(diskPath) ELSE diskPath)
            packageDir == PathDirname(originalPackageJsonPath.value)
            key == InstallKey(packageDir, spec)
            arr == IF MapHas(keySpecs, key) THEN MapGet(keySpecs, key) ELSE <<>>
            newDeps == ObjectSpread(f.manifests[packageDir],
                                    spec.url.version.dependencyOverrides)
        IN  IF ~kind.defined THEN Throw("NoSuchFileOrDirectory")
            ELSE IF ~originalPackageJsonPath.defined THEN Throw("NoPackageJson")
            ELSE SpecsLoop(f, benchmarkRoot, Tail(specs),
                           MapSet(keySpecs, key, Append(arr, spec)),
                           MapSet(keyDeps, key, newDeps),
                           defaultSpecs)

\* Lines 138-149.
DefaultPlan(benchmarkRoot, defaultSpecs) ==
    [specs |-> defaultSpecs,
     npmInstalls |-> <<>>,
     mountPoints |-> <<[urlPath |-> <<"/">>, diskPath |-> benchmarkRoot]>>]

\* Lines 158-159.
InstallDir(npmInstallRoot, packageDir, label) ==
    PathJoin(npmInstallRoot, <<hashStrings(<<packageDir, label>>)>>)

\* Lines 152-179: the plan of one entry of keySpecs.
KeyPlan(benchmarkRoot, npmInstallRoot, key, specs, dependencies) ==
    LET parsedKey == JSONParse(key)
        packageDir == parsedKey[1]
        label == parsedKey[3]
        installDir == InstallDir(npmInstallRoot, packageDir, label)
    IN  [specs |-> specs,
         npmInstalls |->
             <<[installDir |-> installDir,
                packageJson |-> [private |-> TRUE, dependencies |-> dependencies]]>>,
         mountPoints |->
             <<[urlPath |-> <<"/">> \o PathRelative(benchmarkRoot, packageDir)
                                \o <<"/", "node_modules">>,
                diskPath |-> PathJoin(installDir, <<<<"node_modules">>>>)],
               [urlPath |-> <<"/">>, diskPath |-> benchmarkRoot]>>]

\* Lines 86-183.
makeServerPlans(f, benchmarkRoot, npmInstallRoot, specs) ==
    LET grouped == SpecsLoop(f, benchmarkRoot, specs, <<>>, <<>>, <<>>)
    IN  IF ~grouped.ok THEN grouped
        ELSE
          LET keySpecs == grouped.value.keySpecs
              keyDeps == grouped.value.keyDeps
              defaultSpecs == grouped.value.defaultSpecs
          IN  Return(
                (IF Len(defaultSpecs) > 0
                 THEN <<DefaultPlan(benchmarkRoot, defaultSpecs)>> ELSE <<>>)
                \o [i \in 1..Len(keySpecs) |->
                       KeyPlan(benchmarkRoot, npmInstallRoot, keySpecs[i].key,
                               keySpecs[i].value, MapGet(keyDeps, keySpecs[i].key))])

---------------------------------------------------------------------------
(* versions.ts: prepareVersionDirectory and npmInstall *)

\* pathExists asking for a finished installation instead of the directory.
pathExistsInstalled(ds, installDir) == ds[installDir].installed

\* fsExtra.pathExists(installDir)
pathExists(ds, installDir) == ds[installDir].exists


NoCall == [pc |-> "idle", result |-> "none"]

InFlight(call) == call.pc # "idle"

---------------------------------------------------------------------------
(* Inputs *)

MaxFlags == 2
MaxExpandFlags == 2
MaxSpecs == 2
MaxCalls == 2
MaxConcurrent == 2

Object1(k, v) == [x \in {k} |-> v]
Object2(k1, v1, k2, v2) == [x \in {k1, k2} |-> IF x = k1 THEN v1 ELSE v2]

\* All lists of at most n elements of pool.
ListsOf(pool, n) == UNION {[1..k -> pool] : k \in 0..n}

NotRun == [ok |-> FALSE, error |-> "not run"]

FlagPool ==
    {<<"a", "/", "default">>,
     <<"a", "/", "v", "=", "p", "@", "1">>,
     <<"a", "/", "v", "=", "p", "@", "2">>,
     <<"a", "/", "w", "=", "p", "@", "1", ",", "q", "@", "2">>,
     <<"b", "/", "v", "=", "p", "@", "1">>,
     <<"a", "/", "default", "2", "=", "p", "@", "1">>,
     <<"a", "v">>,
     <<"a", "/", "v", "=", "p">>}

ExpandFlagPool ==
    {<<"a", "/", "v", "=", "p", "@", "1">>,
     <<"a", "/", "b", "=", "p", "@", "2">>,
     <<"a", "v">>}

ImplementationOptions == {Star, <<"a">>, <<"common">>, <<"B", ",", "a">>}

NameOptions == {Star, <<"x">>, <<"versions">>, <<"x", ",", "x">>}

VariantOptions ==
    {Star, <<" ", "v", " ", ",", ",">>, <<"u", ",", "*">>, <<"u">>}

Variant(name) == [name |-> name, config |-> [defined |-> FALSE]]
VariantWithConfig(name) ==
    [name |-> name,
     config |-> [defined |-> TRUE, value |-> Object1(<<"k">>, name)]]

Json(variants) == [kind |-> "json", variants |-> variants]

\* What a benchmark directory can hold; "absent" is no directory at all.
ConfigsX ==
    {[kind |-> "absent"], [kind |-> "ENOENT"], [kind |-> "EIO"], Json(<<>>),
     Json(<<VariantWithConfig(<<"w">>), Variant(<<"v">>)>>),
     Json(<<Variant(<<>>), VariantWithConfig(<<"v">>)>>)}

ConfigsY == {[kind |-> "absent"], Json(<<Variant(<<"v">>)>>)}

Entry(k, v) == [key |-> k, value |-> v]

\* An implementation directory, listed Y, node_modules, x.
ImplDir(cx, cy) ==
    (IF cy.kind = "absent" THEN <<>> ELSE <<Entry(<<"Y">>, cy)>>)
    \o <<Entry(<<"node_modules">>, [kind |-> "ENOENT"])>>
    \o (IF cx.kind = "absent" THEN <<>> ELSE <<Entry(<<"x">>, cx)>>)

ImplDirsA == {ImplDir(cx, cy) : cx \in ConfigsX, cy \in ConfigsY}

ImplDirsB ==
    {ImplDir(Json(<<VariantWithConfig(<<"w">>), Variant(<<"v">>)>>),
             Json(<<Variant(<<"v">>)>>))}

\* <repoRoot>/benchmarks, listed common, a, B.
DiskPool ==
    {[exists |-> FALSE, tree |-> <<>>], [exists |-> TRUE, tree |-> <<>>]}
    \cup {[exists |-> TRUE,
           tree |-> <<Entry(<<"common">>, <<>>)>> \o a \o b] :
             a \in {<<>>} \cup {<<Entry(<<"a">>, d)>> : d \in ImplDirsA},
             b \in {<<>>} \cup {<<Entry(<<"B">>, d)>> : d \in ImplDirsB}}

OptsPool ==
    [implementation : ImplementationOptions,
     name : NameOptions,
     variant : VariantOptions,
     packageVersion : ListsOf(ExpandFlagPool, MaxExpandFlags)]

benchmarkRoot == <<"/", "r">>
npmInstallRoot == <<"/", "i">>

VersionPool ==
    {DefaultVersion,
     [label |-> <<"v">>, dependencyOverrides |-> Object1(<<"p">>, <<"1">>)],
     [label |-> <<"v">>, dependencyOverrides |-> Object1(<<"p">>, <<"2">>)],
     [label |-> <<"w">>, dependencyOverrides |-> Object1(<<"p">>, <<"1">>)]}

SpecPool ==
    {[name |-> <<"n">>, url |-> [kind |-> "remote"]]}
    \cup {[name |-> n,
           url |-> [kind |-> "local", implementation |-> i, version |-> v]] :
             n \in {<<"n">>, <<"m">>}, i \in {<<"a">>, <<"b">>}, v \in VersionPool}

DirA == PathJoin(benchmarkRoot, <<<<"a">>>>)
PathAN == PathJoin(benchmarkRoot, <<<<"a">>, <<"n">>>>)
PathAM == PathJoin(benchmarkRoot, <<<<"a">>, <<"m">>>>)
PathBN == PathJoin(benchmarkRoot, <<<<"b">>, <<"n">>>>)
PathBM == PathJoin(benchmarkRoot, <<<<"b">>, <<"m">>>>)

ManifestPool ==
    [p \in {benchmarkRoot, DirA, PathAN} |->
        IF p = benchmarkRoot
        THEN Object2(<<"p">>, <<"0">>, <<"q">>, <<"0">>)
        ELSE IF p = DirA THEN Object1(<<"p">>, <<"0">>)
        ELSE EmptyObject]

Restrict(f, dom) == [x \in dom |-> f[x]]

\* /r/a/n is a directory, a file or missing; the other benchmark paths are
\* directories; any of /r, /r/a and (when it is a directory) /r/a/n holds a
\* package.json.
FsOf(k, dom) ==
    [kinds |-> [p \in ({PathAM, PathBN, PathBM}
                       \cup (IF k = "missing" THEN {} ELSE {PathAN})) |->
                   IF p = PathAN THEN k ELSE "dir"],
     manifests |-> Restrict(ManifestPool, dom)]

FsPool ==
    {FsOf(c[1], c[2]) :
        c \in {c \in {"dir", "file", "missing"}
                      \X (SUBSET {benchmarkRoot, DirA, PathAN}) :
                  PathAN \in c[2] => c[1] = "dir"}}

PackageJsonPool ==
    {[private |-> TRUE, dependencies |-> Object1(<<"p">>, <<"1">>)],
     [private |-> TRUE, dependencies |-> Object1(<<"p">>, <<"2">>)]}

InstallDirPool ==
    {InstallDir(npmInstallRoot, DirA, <<"v">>),
     InstallDir(npmInstallRoot, DirA, <<"w">>)}

InstallPool == [installDir : InstallDirPool, packageJson : PackageJsonPool]

Callers == 1..MaxConcurrent

---------------------------------------------------------------------------
(* The four components as state machines *)

IdleParse == flags = <<>> /\ parsed = NotRun
IdleExpand == opts = <<>> /\ disk = <<>> /\ expanded = NotRun
IdlePlans == inSpecs = <<>> /\ fs = <<>> /\ planned = NotRun
IdlePrepare == calls = <<>> /\ dirs = <<>> /\ log = <<>>

parseVars == <<flags, parsed>>
expandVars == <<opts, disk, expanded>>
plansVars == <<inSpecs, fs, planned>>
prepareVars == <<calls, dirs, log>>

InitParse ==
    /\ mode = "parse" /\ pc = "input"
    /\ flags \in ListsOf(FlagPool, MaxFlags)
    /\ parsed = NotRun
    /\ IdleExpand /\ IdlePlans /\ IdlePrepare

ParsePackageVersions ==
    /\ mode = "parse" /\ pc = "input"
    /\ parsed' = parsePackageVersions(flags)
    /\ pc' = "done"
    /\ UNCHANGED <<mode, flags, expandVars, plansVars, prepareVars>>

SpecParse == InitParse /\ [][ParsePackageVersions]_vars

InitExpand ==
    /\ mode = "expand" /\ pc = "input"
    /\ opts \in OptsPool
    /\ disk \in DiskPool
    /\ expanded = NotRun
    /\ IdleParse /\ IdlePlans /\ IdlePrepare

SpecsFromOpts ==
    /\ mode = "expand" /\ pc = "input"
    /\ expanded' = specsFromOpts(opts, disk)
    /\ pc' = "done"
    /\ UNCHANGED <<mode, opts, disk, parseVars, plansVars, prepareVars>>

SpecExpand == InitExpand /\ [][SpecsFromOpts]_vars

InitPlans ==
    /\ mode = "plans" /\ pc = "input"
    /\ inSpecs \in ListsOf(SpecPool, MaxSpecs)
    /\ fs \in FsPool
    /\ planned = NotRun
    /\ IdleParse /\ IdleExpand /\ IdlePrepare

MakeServerPlans ==
    /\ mode = "plans" /\ pc = "input"
    /\ planned' = makeServerPlans(fs, benchmarkRoot, npmInstallRoot, inSpecs)
    /\ pc' = "done"
    /\ UNCHANGED <<mode, inSpecs, fs, parseVars, expandVars, prepareVars>>

SpecPlans == InitPlans /\ [][MakeServerPlans]_vars

\* prepareVersionDirectory is an async function: an invocation runs from one
\* await to the next, and between two awaits any other invocation may run.
\* calls[c] is the invocation of caller c: where it is, what it was given and
\* what it did; dirs[d] is installDir d on disk; log counts, per installDir,
\* the starts of `npm install`, and remembers whether two invocations for the
\* same installDir were ever in flight together and whether one was rejected.
InitPrepare ==
    /\ mode = "prepare" /\ pc = "running"
    /\ calls = [c \in Callers |-> NoCall]
    /\ dirs = [d \in InstallDirPool |->
                 [exists |-> FALSE, manifest |-> [written |-> FALSE],
                  installed |-> FALSE]]
    /\ log = [calls |-> 0,
              started |-> [d \in InstallDirPool |-> 0],
              overlap |-> [d \in InstallDirPool |-> FALSE],
              rejected |-> [d \in InstallDirPool |-> FALSE]]
    /\ IdleParse /\ IdleExpand /\ IdlePlans

Dir(c) == calls[c].install.installDir

\* The promise of invocation c settles while the disk is ds.
Settle(c, result, ds) ==
    [calls EXCEPT ![c].pc = "idle", ![c].result = result,
                  ![c].atReturn = ds[Dir(c)]]

\* Line 243: the function is called with an install.
CallPrepare(c, install) ==
    /\ mode = "prepare"
    /\ ~InFlight(calls[c])
    /\ log.calls < MaxCalls
    /\ calls' = [calls EXCEPT ![c] =
                    [pc |-> "pathExists", install |-> install, result |-> "pending",
                     foundExisting |-> FALSE, effects |-> 0,
                     afterRejected |-> log.rejected[install.installDir],
                     atReturn |-> dirs[install.installDir]]]
    /\ log' = [log EXCEPT
                 !.calls = @ + 1,
                 !.overlap[install.installDir] =
                     @ \/ \E o \in Callers \ {c} :
                             InFlight(calls[o]) /\ Dir(o) = install.installDir]
    /\ UNCHANGED <<mode, pc, dirs, parseVars, expandVars, plansVars>>

\* Lines 245-251: the existence check and the early return.
PathExists(c) ==
    /\ mode = "prepare"
    /\ calls[c].pc = "pathExists"
    /\ calls' = IF pathExists(dirs, Dir(c))
                THEN [Settle(c, "resolved", dirs) EXCEPT ![c].foundExisting = TRUE]
                ELSE [calls EXCEPT ![c].pc = "ensureDir"]
    /\ UNCHANGED <<mode, pc, dirs, log, parseVars, expandVars, plansVars>>

\* An awaited step of invocation c throws: the promise is rejected.
Fails(c) ==
    /\ calls' = Settle(c, "rejected", dirs)
    /\ log' = [log EXCEPT !.rejected[Dir(c)] = TRUE]
    /\ UNCHANGED dirs

\* Line 253: fsExtra.ensureDir(installDir), which succeeds on a directory
\* that is already there.
EnsureDir(c, succeeds) ==
    /\ mode = "prepare"
    /\ calls[c].pc = "ensureDir"
    /\ IF succeeds
       THEN /\ dirs' = [dirs EXCEPT ![Dir(c)].exists = TRUE]
            /\ calls' = [calls EXCEPT ![c].pc = "writeJson", ![c].effects = @ + 1]
            /\ UNCHANGED log
       ELSE Fails(c)
    /\ UNCHANGED <<mode, pc, parseVars, expandVars, plansVars>>

\* Lines 254-255: fsExtra.writeJson(<installDir>/package.json, packageJson).
WriteJson(c, succeeds) ==
    /\ mode = "prepare"
    /\ calls[c].pc = "writeJson"
    /\ IF succeeds
       THEN /\ dirs' = [dirs EXCEPT ![Dir(c)].manifest =
                          [written |-> TRUE, json |-> calls[c].install.packageJson]]
            /\ calls' = [calls EXCEPT ![c].pc = "npmInstall", ![c].effects = @ + 1]
            /\ UNCHANGED log
       ELSE Fails(c)
    /\ UNCHANGED <<mode, pc, parseVars, expandVars, plansVars>>

\* Lines 256 and 229: child_process.execFile('npm', ['install'], {cwd}).
NpmInstallStart(c) ==
    /\ mode = "prepare"
    /\ calls[c].pc = "npmInstall"
    /\ calls' = [calls EXCEPT ![c].pc = "installing", ![c].effects = @ + 1]
    /\ log' = [log EXCEPT !.started[Dir(c)] = @ + 1]
    /\ UNCHANGED <<mode, pc, dirs, parseVars, expandVars, plansVars>>

\* Lines 229-235: the callback of execFile, with or without an error.
NpmInstallExit(c, succeeds) ==
    /\ mode = "prepare"
    /\ calls[c].pc = "installing"
    /\ IF succeeds
       THEN /\ dirs' = [dirs EXCEPT ![Dir(c)].installed = TRUE]
            /\ calls' = Settle(c, "resolved", dirs')
            /\ UNCHANGED log
       ELSE Fails(c)
    /\ UNCHANGED <<mode, pc, parseVars, expandVars, plansVars>>

Call == \E c \in Callers, install \in InstallPool : CallPrepare(c, install)
Check == \E c \in Callers : PathExists(c)
MakeDir == \E c \in Callers, succeeds \in BOOLEAN : EnsureDir(c, succeeds)
WriteManifest == \E c \in Callers, succeeds \in BOOLEAN : WriteJson(c, succeeds)
StartInstall == \E c \in Callers : NpmInstallStart(c)
EndInstall == \E c \in Callers, succeeds \in BOOLEAN : NpmInstallExit(c, succeeds)

NextPrepare ==
    \/ Call \/ Check \/ MakeDir \/ WriteManifest \/ StartInstall \/ EndInstall

SpecPrepare == InitPrepare /\ [][NextPrepare]_vars

Init == InitParse \/ InitExpand \/ InitPlans \/ InitPrepare

Next ==
    \/ ParsePackageVersions \/ SpecsFromOpts \/ MakeServerPlans
    \/ NextPrepare

Spec == Init /\ [][Next]_vars

---------------------------------------------------------------------------
(* Properties of parsePackageVersions *)

Done(m) == mode = m /\ pc = "done"

\* How many times x occurs in seq.
Occurs(seq, x) == Cardinality({i \in DOMAIN seq : seq[i] = x})

Failed(result, error) == ~result.ok /\ result.error = error

\* What a flag says by the grammar
\*   <implementation>/default
\*   <implementation>/<label>=<pkg>@<version>[,<pkg>@<version>]...
\* read without the code's regular expressions.
GrammarSlash(f) == Min({i \in 1..Len(f) : f[i] = "/"})
GrammarEquals(f) == Min({i \in (GrammarSlash(f) + 1)..Len(f) : f[i] = "="})
GrammarIsDefault(f) ==
    /\ \E i \in 2..Len(f) : f[i] = "/"
    /\ SubSeq(f, GrammarSlash(f) + 1, Len(f)) = DefaultLabel
GrammarIsOverride(f) ==
    /\ \E i \in 2..Len(f) : f[i] = "/"
    /\ \E i \in (GrammarSlash(f) + 2)..Len(f) : f[i] = "="
    /\ \A pv \in Range(Split(SubSeq(f, GrammarEquals(f) + 1, Len(f)), ",")) :
          \E q \in 2..(Len(pv) - 1) : pv[q] = "@"
GrammarWellFormed(f) == GrammarIsDefault(f) \/ GrammarIsOverride(f)
GrammarImplementation(f) == SubSeq(f, 1, GrammarSlash(f) - 1)
GrammarLabel(f) ==
    IF GrammarIsDefault(f) THEN DefaultLabel
    ELSE SubSeq(f, GrammarSlash(f) + 1, GrammarEquals(f) - 1)

\* Some non-default (implementation, label) pair is in two of the flags.
LabelGivenTwice(fl) ==
    \E i, j \in 1..Len(fl) :
        /\ i < j
        /\ GrammarLabel(fl[i]) # DefaultLabel
        /\ GrammarImplementation(fl[i]) = GrammarImplementation(fl[j])
        /\ GrammarLabel(fl[i]) = GrammarLabel(fl[j])

\* C6: parsePackageVersions, given flags that all follow the grammar, fails
\* with the duplicate-label error exactly when some non-default
\* (implementation, label) pair is in more than one flag.
C6_DuplicateLabelExactly ==
    (Done("parse") /\ \A i \in 1..Len(flags) : GrammarWellFormed(flags[i]))
        => (Failed(parsed, "DuplicateLabel") <=> LabelGivenTwice(flags))


\* The versions the grammar gives implementation impl, in the order of the
\* flags.
RECURSIVE GrammarVersions(_, _)
GrammarVersions(fl, impl) ==
    IF fl = <<>> THEN <<>>
    ELSE (IF GrammarImplementation(Head(fl)) = impl
          THEN <<GrammarLabel(Head(fl))>> ELSE <<>>)
         \o GrammarVersions(Tail(fl), impl)

LabelsOf(versions) == [i \in 1..Len(versions) |-> versions[i].label]

\* A label that begins with the word default, and is not that word.
DefaultPrefixed(f) ==
    /\ GrammarIsOverride(f)
    /\ f[GrammarSlash(f) + 1] = "default"

\* The rest of C6, on the flags whose labels do not begin with "default":
\* the duplicate-label error comes exactly when a non-default pair is given
\* twice, and the accepted versions are returned per implementation in the
\* order of their flags.
C6_WithoutDefaultPrefix ==
    (/\ Done("parse")
     /\ \A i \in 1..Len(flags) :
           GrammarWellFormed(flags[i]) /\ ~DefaultPrefixed(flags[i]))
        => /\ Failed(parsed, "DuplicateLabel") <=> LabelGivenTwice(flags)
           /\ ~LabelGivenTwice(flags) =>
                /\ parsed.ok
                /\ \A i \in 1..Len(flags) :
                      LET impl == GrammarImplementation(flags[i])
                      IN  /\ MapHas(parsed.value, impl)
                          /\ LabelsOf(MapGet(parsed.value, impl))
                                = GrammarVersions(flags, impl)
                /\ \A k \in 1..Len(parsed.value) :
                      \E i \in 1..Len(flags) :
                          GrammarImplementation(flags[i]) = parsed.value[k].key

---------------------------------------------------------------------------
(* Properties of specsFromOpts *)

\* The sort key of a spec.
SortKey(s) == <<s.name, s.variant, s.implementation, s.version.label>>

\* Whether key a is at or before key b in the lexicographic order that
\* compares the components with Cmp.
RECURSIVE KeyAtOrBefore(_, _, _)
KeyAtOrBefore(a, b, ordinal) ==
    IF a = <<>> THEN TRUE
    ELSE LET c == IF ordinal THEN OrdinalCompare(Head(a), Head(b))
                  ELSE localeCompare(Head(a), Head(b))
         IN  IF c < 0 THEN TRUE
             ELSE IF c > 0 THEN FALSE
             ELSE KeyAtOrBefore(Tail(a), Tail(b), ordinal)

SortedBy(specs, ordinal) ==
    \A i \in 1..(Len(specs) - 1) :
        KeyAtOrBefore(SortKey(specs[i]), SortKey(specs[i + 1]), ordinal)

\* C3 as stated: the returned list is sorted by (name, variant,
\* implementation, version.label) in the lexicographic order of strings,
\* which compares code units.
C3_SortedByCodeUnits ==
    (Done("expand") /\ expanded.ok) => SortedBy(expanded.value, TRUE)

\* C3, amended: the returned list is sorted by (name, variant,
\* implementation, version.label), each component compared as localeCompare
\* compares strings (collation: "a" before "B", "x" before "Y").
C3_SortedByCollation ==
    (Done("expand") /\ expanded.ok) => SortedBy(expanded.value, FALSE)

\* A returned list in which adjacent specs differ first in the name, first in
\* the variant, first in the implementation and only in the label.
C3_Witness ==
    /\ Done("expand") /\ expanded.ok
    /\ LET out == expanded.value
           FirstDifference(n) ==
               \E i \in 1..(Len(out) - 1) :
                   /\ SubSeq(SortKey(out[i]), 1, n - 1)
                        = SubSeq(SortKey(out[i + 1]), 1, n - 1)
                   /\ SortKey(out[i])[n] # SortKey(out[i + 1])[n]
       IN  \A n \in 1..4 : FirstDifference(n)

\* parsePackageVersions of every list of flags that opts can hold, computed
\* once.
ParsedFlagLists ==
    [fl \in ListsOf(ExpandFlagPool, MaxExpandFlags) |-> parsePackageVersions(fl)]

ParsedFlags == ParsedFlagLists[opts.packageVersion]

\* What the options select, read from the options and the disk.
SelectedImpls ==
    IF opts.implementation = Star
    THEN SelectSeq(MapKeys(disk.tree), NotIgnored)
    ELSE Split(opts.implementation, ",")

SelectedNames(impl) ==
    IF opts.name = Star
    THEN IF MapHas(disk.tree, impl)
         THEN SelectSeq(MapKeys(MapGet(disk.tree, impl)), NotIgnored)
         ELSE <<>>
    ELSE Split(opts.name, ",")

\* The benchmark directories on disk, as <<implementation, name>>.
BenchDirs ==
    UNION {{<<disk.tree[i].key, disk.tree[i].value[j].key>> :
               j \in 1..Len(disk.tree[i].value)} : i \in 1..Len(disk.tree)}

ConfigOf(b) == MapGet(MapGet(disk.tree, b[1]), b[2])
DeclaresVariants(b) == ConfigOf(b).kind = "json" /\ Len(ConfigOf(b).variants) > 0

\* How often the loops of specsFromOpts come to benchmark directory b.
Visits(b) == Occurs(SelectedImpls, b[1]) * Occurs(SelectedNames(b[1]), b[2])

\* Nothing makes specsFromOpts throw, the flags having parsed.
NothingElseThrows ==
    /\ IF opts.implementation = Star THEN disk.exists
       ELSE \A i \in 1..Len(SelectedImpls) : SelectedImpls[i] \notin ignoreFiles
    /\ \A i \in 1..Len(SelectedImpls) :
          LET impl == SelectedImpls[i]
              names == SelectedNames(impl)
          IN  /\ IF opts.name = Star THEN disk.exists /\ MapHas(disk.tree, impl)
                 ELSE \A n \in 1..Len(names) : names[n] \notin ignoreFiles
              /\ \A n \in 1..Len(names) :
                    <<impl, names[n]>> \in BenchDirs
                        => ConfigOf(<<impl, names[n]>>).kind # "EIO"

\* The name of a declared variant is requested: the option holds "*" or
\* the name.
Requested(variantName) ==
    LET requested == VariantSet(opts.variant)
    IN  Star \in requested \/ variantName \in requested

\* The versions of an implementation, given the parsed flags.
VersionsOf(versions, impl) ==
    IF MapHas(versions, impl) THEN MapGet(versions, impl) ELSE <<DefaultVersion>>

\* The number of returned specs of benchmark directory b that carry the name
\* and config of declared variant v and version ver.
Emitted(b, v, ver) ==
    Occurs(expanded.value,
           [name |-> b[2], implementation |-> b[1], version |-> ver,
            variant |-> v.name,
            config |-> IF v.config.defined THEN v.config.value ELSE EmptyObject])

\* The number of returned specs of benchmark directory b with variant name n.
EmittedNamed(b, n) ==
    Cardinality({k \in 1..Len(expanded.value) :
                    /\ expanded.value[k].name = b[2]
                    /\ expanded.value[k].implementation = b[1]
                    /\ expanded.value[k].variant = n})

\* C4 as stated: for a selected benchmark directory that declares variants,
\* one spec per (declared variant, version) for each declared variant whose
\* name is requested, with the variant's name and config, and no spec for a
\* declared variant that is not requested.  (Equal entries of the declared
\* variants or of the versions give equal specs, so "one" is the product of
\* the numbers of such entries.)
C4_OnePerRequestedVariant ==
    (Done("expand") /\ expanded.ok) =>
        LET versions == ParsedFlags.value
        IN  \A b \in BenchDirs :
              (Visits(b) > 0 /\ DeclaresVariants(b)) =>
                \A v \in Range(ConfigOf(b).variants) :
                    IF Requested(v.name)
                    THEN \A ver \in Range(VersionsOf(versions, b[1])) :
                            Emitted(b, v, ver)
                              = Occurs(ConfigOf(b).variants, v)
                                  * Occurs(VersionsOf(versions, b[1]), ver)
                    ELSE EmittedNamed(b, v.name) = 0

\* C4, amended: specsFromOpts throws only for the documented causes, and
\* otherwise, for a benchmark directory that declares variants, each visit of
\* the loops to it (one per occurrence of its implementation and of its name
\* in the selection) gives one spec per (declared variant, version) for each
\* declared variant with a non-empty name that is requested, with the
\* variant's name and config; a declared variant without a name, or whose
\* name is not requested, gives no spec.
C4_OnePerVisitAndNamedVariant ==
    Done("expand") =>
        LET versions == ParsedFlags.value
        IN  /\ expanded.ok <=> (ParsedFlags.ok /\ NothingElseThrows)
            /\ expanded.ok =>
                \A b \in BenchDirs :
                  DeclaresVariants(b) =>
                    \A v \in Range(ConfigOf(b).variants) :
                        IF v.name # <<>> /\ Requested(v.name)
                        THEN \A ver \in Range(VersionsOf(versions, b[1])) :
                                Emitted(b, v, ver)
                                  = Visits(b) * Occurs(ConfigOf(b).variants, v)
                                      * Occurs(VersionsOf(versions, b[1]), ver)
                        ELSE Visits(b) > 0 => EmittedNamed(b, v.name) = 0

\* A visited benchmark directory declares a variant that is requested and
\* emitted with every version, and another that is not requested.
C4_Witness ==
    /\ Done("expand") /\ expanded.ok
    /\ \E b \in BenchDirs :
          /\ Visits(b) > 0 /\ DeclaresVariants(b)
          /\ \E v, u \in Range(ConfigOf(b).variants) :
                /\ v.name # <<>> /\ Requested(v.name)
                /\ \A ver \in Range(VersionsOf(ParsedFlags.value, b[1])) :
                      Emitted(b, v, ver) > 0
                /\ u.name # <<>> /\ ~Requested(u.name)
                /\ EmittedNamed(b, u.name) = 0


\* The versions that the returned specs of implementation impl, benchmark
\* name and variant carry.
CarriedVersions(impl, name, variant) ==
    {expanded.value[k].version :
        k \in {k \in 1..Len(expanded.value) :
                  /\ expanded.value[k].implementation = impl
                  /\ expanded.value[k].name = name
                  /\ expanded.value[k].variant = variant}}

\* C5: the returned specs of an implementation without a parsed
\* package-version flag all carry {label: "default", dependencyOverrides: {}};
\* those of an implementation with parsed flags carry exactly the versions
\* parsed for it, whatever the flags of the other implementations.
C5_DefaultPerImplementation ==
    (Done("expand") /\ expanded.ok) =>
        LET versions == ParsedFlags.value
            Expected(impl) ==
                IF MapHas(versions, impl) THEN Range(MapGet(versions, impl))
                ELSE {DefaultVersion}
        IN  /\ \A k \in 1..Len(expanded.value) :
                  LET s == expanded.value[k]
                  IN  CarriedVersions(s.implementation, s.name, s.variant)
                        = Expected(s.implementation)
            /\ \A b \in BenchDirs :
                  Visits(b) > 0 =>
                    IF DeclaresVariants(b)
                    THEN \A v \in Range(ConfigOf(b).variants) :
                            (v.name # <<>> /\ Requested(v.name)) =>
                                CarriedVersions(b[1], b[2], v.name) = Expected(b[1])
                    ELSE opts.variant = Star =>
                            CarriedVersions(b[1], b[2], <<>>) = Expected(b[1])

\* Flags were given, one implementation has none and its specs carry the
\* default version, another has two and its specs carry both.
C5_Witness ==
    /\ Done("expand") /\ expanded.ok
    /\ LET versions == ParsedFlags.value
       IN  \E k, m \in 1..Len(expanded.value) :
              /\ ~MapHas(versions, expanded.value[k].implementation)
              /\ expanded.value[k].version = DefaultVersion
              /\ MapHas(versions, expanded.value[m].implementation)
              /\ Len(MapGet(versions, expanded.value[m].implementation)) = 2
              /\ expanded.value[m].version.label # DefaultLabel

ReservedIn(list) == \E i \in 1..Len(list) : list[i] \in ignoreFiles

ExplicitImplReserved ==
    opts.implementation # Star /\ ReservedIn(Split(opts.implementation, ","))

ExplicitNameReserved == opts.name # Star /\ ReservedIn(Split(opts.name, ","))

ReservedNameError ==
    \/ Failed(expanded, "ReservedImplementationName")
    \/ Failed(expanded, "ReservedBenchmarkName")

NoReservedReturned ==
    expanded.ok =>
        \A k \in 1..Len(expanded.value) :
            /\ expanded.value[k].implementation \notin ignoreFiles
            /\ expanded.value[k].name \notin ignoreFiles

---------------------------------------------------------------------------
(* Properties of makeServerPlans *)

NeedsInstall(spec) ==
    spec.url.kind # "remote" /\ spec.url.version.label # DefaultLabel

\* The directory of the package.json that a spec resolves to.
ManifestDir(spec) ==
    LET diskPath == PathJoin(benchmarkRoot, <<spec.url.implementation, spec.name>>)
        start == IF fs.kinds[diskPath] = "file" THEN PathDirname(diskPath)
                 ELSE diskPath
    IN  PathDirname(findPackageJsonPath(fs, start).value)

\* All NpmInstalls of the returned plans, as <<plan, index>>.
AllInstalls ==
    UNION {{<<p, k>> : k \in 1..Len(planned.value[p].npmInstalls)} :
              p \in 1..Len(planned.value)}

\* C1: two specs that need an install, resolve to the same manifest directory
\* and carry the same label are in one and the same plan, and the output has
\* exactly one NpmInstall for that (manifest directory, label), whatever the
\* implementation names of the two specs.
C1_OnePlanPerDirAndLabel ==
    (Done("plans") /\ planned.ok) =>
        \A i, j \in 1..Len(inSpecs) :
            (/\ NeedsInstall(inSpecs[i]) /\ NeedsInstall(inSpecs[j])
             /\ ManifestDir(inSpecs[i]) = ManifestDir(inSpecs[j])
             /\ inSpecs[i].url.version.label = inSpecs[j].url.version.label)
            => /\ \E p \in 1..Len(planned.value) :
                     {inSpecs[i], inSpecs[j]} \subseteq Range(planned.value[p].specs)
               /\ Cardinality(
                     {x \in AllInstalls :
                         planned.value[x[1]].npmInstalls[x[2]].installDir
                           = InstallDir(npmInstallRoot, ManifestDir(inSpecs[i]),
                                        inSpecs[i].url.version.label)}) = 1

\* The part of C1 that the code keeps: the same holds of two specs of the
\* same implementation.
C1_OnePlanPerDirImplAndLabel ==
    (Done("plans") /\ planned.ok) =>
        \A i, j \in 1..Len(inSpecs) :
            (/\ NeedsInstall(inSpecs[i]) /\ NeedsInstall(inSpecs[j])
             /\ ManifestDir(inSpecs[i]) = ManifestDir(inSpecs[j])
             /\ inSpecs[i].url.implementation = inSpecs[j].url.implementation
             /\ inSpecs[i].url.version.label = inSpecs[j].url.version.label)
            => /\ \E p \in 1..Len(planned.value) :
                     {inSpecs[i], inSpecs[j]} \subseteq Range(planned.value[p].specs)
               /\ Cardinality(
                     {p \in 1..Len(planned.value) :
                         inSpecs[i] \in Range(planned.value[p].specs)}) = 1

\* C9: in every plan that has an NpmInstall, the dependencies of the
\* synthesized manifest are, for every spec of the plan, the dependencies of
\* the originating manifest overridden by that spec's dependencyOverrides.
C9_DependenciesOfEverySpec ==
    (Done("plans") /\ planned.ok) =>
        \A p \in 1..Len(planned.value) :
            \A k \in 1..Len(planned.value[p].npmInstalls) :
                \A s \in Range(planned.value[p].specs) :
                    planned.value[p].npmInstalls[k].packageJson.dependencies
                      = ObjectSpread(fs.manifests[ManifestDir(s)],
                                     s.url.version.dependencyOverrides)

\* The part of C9 that the code keeps: the dependencies are those of the
\* last spec of the plan.
C9_DependenciesOfLastSpec ==
    (Done("plans") /\ planned.ok) =>
        \A p \in 1..Len(planned.value) :
            \A k \in 1..Len(planned.value[p].npmInstalls) :
                LET s == planned.value[p].specs[Len(planned.value[p].specs)]
                IN  planned.value[p].npmInstalls[k].packageJson.dependencies
                      = ObjectSpread(fs.manifests[ManifestDir(s)],
                                     s.url.version.dependencyOverrides)

---------------------------------------------------------------------------
(* Properties of prepareVersionDirectory *)

Called(c) == calls[c].result # "none"

\* C2: while no two invocations for an installDir overlap, `npm install` is
\* started at most once for it; and an invocation that finds installDir
\* existing returns without creating, writing or installing anything.
C2_AtMostOneInstallInSequence ==
    mode = "prepare" =>
        /\ \A d \in InstallDirPool : ~log.overlap[d] => log.started[d] <= 1
        /\ \A c \in Callers :
              (Called(c) /\ calls[c].foundExisting) =>
                  calls[c].result = "resolved" /\ calls[c].effects = 0

\* Two invocations for one installDir, one after the other: the first
\* started `npm install`, which failed, and the second found the directory
\* and returned.
C2_Witness ==
    /\ mode = "prepare"
    /\ \E d \in InstallDirPool :
          /\ ~log.overlap[d] /\ log.started[d] = 1 /\ log.rejected[d]
          /\ ~dirs[d].installed
          /\ \E c \in Callers :
                /\ Called(c) /\ Dir(c) = d
                /\ calls[c].foundExisting /\ calls[c].result = "resolved"

\* C8: when invocations for the same installDir have overlapped and all have
\* returned, none of them rejected, `npm install` was started exactly once
\* for that installDir.
C8_ExactlyOneInstallWhenConcurrent ==
    mode = "prepare" =>
        \A d \in InstallDirPool :
            (/\ log.overlap[d] /\ ~log.rejected[d]
             /\ \A c \in Callers : ~InFlight(calls[c]))
            => log.started[d] = 1

\* C10: an invocation that resolves, not overlapping another for the same
\* installDir, leaves a written manifest and a successfully finished
\* `npm install` in installDir, also when an earlier invocation for it was
\* rejected.
C10_ResolvedMeansInstalled ==
    mode = "prepare" =>
        \A c \in Callers :
            (/\ Called(c) /\ calls[c].result = "resolved"
             /\ ~log.overlap[Dir(c)])
            => /\ calls[c].atReturn.manifest.written
               /\ calls[c].atReturn.installed

=============================================================================
